---- MODULE Spec2Model ----
(***************************************************************************)
(* Model of the blii PDF extraction services.                              *)
(*                                                                         *)
(* Text is a sequence of characters; a character is a TLA+ string naming   *)
(* one code point ("a", ".", "SP", "LF", "NUL", "U+E000", ...).            *)
(***************************************************************************)
EXTENDS Integers, Sequences, FiniteSets, TLC

(***************************************************************************)
(* Character classes used by the regular expressions of                    *)
(* clean_text_for_database and by the str methods the extractors call.     *)
(***************************************************************************)

\* \x00
NullBytes == {"NUL"}

\* [\x01-\x08\x0B\x0C\x0E-\x1F\x7F]; BEL = \x07, DEL = \x7F
ControlChars == {"BEL", "DEL"}

\* U+FFFD, the replacement character
ReplacementChars == {"U+FFFD"}

\* [U+E000-U+F8FF], the private use area of the basic plane
PrivateUseArea == {"U+E000"}

\* [U+FFF0-U+FFFF], the specials block
Specials == {"U+FFFE"}

\* Private-use code points of the supplementary planes (U+F0000..U+10FFFD):
\* no character class of clean_text_for_database contains them.
SupplementaryPrivateUse == {"U+F0000"}

\* \s and str.strip(): space, tab, line feed, carriage return
Whitespace == {"SP", "TAB", "LF", "CR"}

\* [.!?]
TerminalPunct == {".", "!", "?"}

\* [.!?,:;]
AnyPunct == {".", "!", "?", ",", ":", ";"}

\* str.isdigit()
Digits == {"0", "1", "2", "3", "4", "5", "6", "7", "8", "9"}

(***************************************************************************)
(* str helpers                                                             *)
(***************************************************************************)

RemoveAll(s, set) == SelectSeq(s, LAMBDA c : c \notin set)

\* first index >= i of s whose character is not in set, Len(s)+1 if none
SkipWhile(s, i, set) ==
    CHOOSE k \in i..(Len(s) + 1) :
        /\ k = Len(s) + 1 \/ s[k] \notin set
        /\ \A j \in i..(k - 1) : s[j] \in set

\* first index >= i of s whose character is in set, Len(s)+1 if none
Find(s, i, set) ==
    CHOOSE k \in i..(Len(s) + 1) :
        /\ k = Len(s) + 1 \/ s[k] \in set
        /\ \A j \in i..(k - 1) : s[j] \notin set

\* last index <= i of s whose character is not whitespace, 0 if none
LastNonWs(s, i) ==
    CHOOSE k \in 0..i :
        /\ k = 0 \/ s[k] \notin Whitespace
        /\ \A j \in (k + 1)..i : s[j] \in Whitespace

\* the characters of s at the indices in keep, in order
SelectIndices(s, keep) ==
    LET at == [i \in 1..Len(s) |-> i]
        kept == SelectSeq(at, LAMBDA i : i \in keep)
    IN  [n \in 1..Len(kept) |-> s[kept[n]]]

\* str.strip()
Strip(s) ==
    LET a == SkipWhile(s, 1, Whitespace)
        b == LastNonWs(s, Len(s))
    IN  IF a > b THEN <<>> ELSE SubSeq(s, a, b)

\* pat occurs in s at index i
MatchAt(s, i, pat) ==
    /\ i + Len(pat) - 1 <= Len(s)
    /\ \A k \in 1..Len(pat) : s[i + k - 1] = pat[k]

\* pat in s
Contains(s, pat) == \E i \in 1..(Len(s) + 1) : MatchAt(s, i, pat)

(***************************************************************************)
(* clean_text_for_database, one operator per re.sub                        *)
(***************************************************************************)

RemoveNullBytes(s) == RemoveAll(s, NullBytes)

\* a character class that starts one code point too late and misses \x07
RemoveControlChars_Late(s) == RemoveAll(s, ControlChars \ {"BEL"})

RemoveControlChars(s) == RemoveAll(s, ControlChars)

RemoveReplacementChars(s) == RemoveAll(s, ReplacementChars)

RemovePrivateUse(s) == RemoveAll(s, PrivateUseArea)

RemoveSpecials(s) == RemoveAll(s, Specials)

\* the substitution with a class that leaves line feeds alone
CollapseWhitespace_KeepNewlines(s) ==
    LET Blank == Whitespace \ {"LF"}
        spaced == [i \in 1..Len(s) |-> IF s[i] \in Blank THEN "SP" ELSE s[i]]
        FirstOfRun(i) == s[i] \notin Blank \/ i = 1 \/ s[i - 1] \notin Blank
    IN  SelectIndices(spaced, {i \in 1..Len(s) : FirstOfRun(i)})

\* re.sub(r'\s+', ' ', s): every run of whitespace becomes one space
CollapseWhitespace(s) ==
    LET spaced == [i \in 1..Len(s) |->
                     IF s[i] \in Whitespace THEN "SP" ELSE s[i]]
        FirstOfRun(i) ==
            s[i] \notin Whitespace \/ i = 1 \/ s[i - 1] \notin Whitespace
    IN  SelectIndices(spaced, {i \in 1..Len(s) : FirstOfRun(i)})

\* re.sub(r'([.!?])\s*([.!?])+', r'\1', s): leftmost non-overlapping matches.
\* A match starts at a terminal mark, runs over the whitespace after it and
\* needs a terminal mark there; it then takes every mark that follows
\* directly and stops at the first other character, whitespace included.
\* The scan goes from one terminal mark t to the next.
RECURSIVE RepeatedPunctFrom(_, _)
RepeatedPunctFrom(s, i) ==
    IF i > Len(s) THEN <<>>
    ELSE LET t == Find(s, i, TerminalPunct)
             j == SkipWhile(s, t + 1, Whitespace)
         IN  IF t > Len(s) THEN SubSeq(s, i, Len(s))
             ELSE IF j <= Len(s) /\ s[j] \in TerminalPunct
             THEN SubSeq(s, i, t)
                    \o RepeatedPunctFrom(s, SkipWhile(s, j, TerminalPunct))
             ELSE SubSeq(s, i, t) \o RepeatedPunctFrom(s, t + 1)

CollapseRepeatedPunctuation(s) == RepeatedPunctFrom(s, 1)

\* re.sub(r'\s+([.!?,:;])', r'\1', s): a run of whitespace goes when the
\* character after it is a punctuation mark
RemoveSpaceBeforePunctuation(s) ==
    LET Stays(i) ==
            LET j == SkipWhile(s, i, Whitespace)
            IN  ~(s[i] \in Whitespace /\ j <= Len(s) /\ s[j] \in AnyPunct)
    IN  SelectIndices(s, {i \in 1..Len(s) : Stays(i)})

clean_text_for_database(text) ==
    IF text = <<>> THEN <<>>
    ELSE Strip(RemoveSpaceBeforePunctuation(CollapseRepeatedPunctuation(
           CollapseWhitespace(RemoveSpecials(RemovePrivateUse(
             RemoveReplacementChars(RemoveControlChars(
               RemoveNullBytes(text)))))))))


(***************************************************************************)
(* More str helpers used by the extractors                                 *)
(***************************************************************************)

\* s.split(sep) for a one-character separator: always at least one piece
RECURSIVE SplitFrom(_, _, _)
SplitFrom(s, i, sep) ==
    LET t == Find(s, i, {sep})
    IN  IF t > Len(s) THEN <<SubSeq(s, i, Len(s))>>
        ELSE <<SubSeq(s, i, t - 1)>> \o SplitFrom(s, t + 1, sep)

Split(s, sep) == SplitFrom(s, 1, sep)

\* len(s.split()): the number of maximal runs of non-whitespace
WordCount(s) ==
    Cardinality({i \in 1..Len(s) :
        /\ s[i] \notin Whitespace
        /\ (i = 1 \/ s[i - 1] \in Whitespace)})

\* s.replace(pat, ''): leftmost non-overlapping occurrences removed
RECURSIVE RemoveSubstrFrom(_, _, _)
RemoveSubstrFrom(s, i, pat) ==
    IF i > Len(s) THEN <<>>
    ELSE IF MatchAt(s, i, pat)
         THEN RemoveSubstrFrom(s, i + Len(pat), pat)
         ELSE <<s[i]>> \o RemoveSubstrFrom(s, i + 1, pat)

RemoveSubstr(s, pat) == RemoveSubstrFrom(s, 1, pat)

\* s.isdigit()
IsDigit(s) == s # <<>> /\ \A i \in 1..Len(s) : s[i] \in Digits

\* str(n) for n >= 0
DigitChars == <<"0", "1", "2", "3", "4", "5", "6", "7", "8", "9">>

RECURSIVE Decimal(_)
Decimal(n) ==
    IF n < 10 THEN <<DigitChars[n + 1]>>
    ELSE Decimal(n \div 10) \o <<DigitChars[(n % 10) + 1]>>

\* '.pdf'
DotPdf == <<".", "p", "d", "f">>

\* 'Page'
PageWord == <<"P", "a", "g", "e">>

\* '!['
ImageMarkup == <<"!", "[">>

\* the marker numbered from 0, as enumerate counts
PageMarker_ZeroBased(n) ==
    <<"LF", "-", "-", "-", "SP">> \o PageWord \o <<"SP">> \o Decimal(n - 1)
        \o <<"SP", "-", "-", "-", "LF">>

\* f"\n--- Page {page_num + 1} ---\n"
PageMarker(n) ==
    <<"LF", "-", "-", "-", "SP">> \o PageWord \o <<"SP">> \o Decimal(n)
        \o <<"SP", "-", "-", "-", "LF">>

(***************************************************************************)
(* The extractors.  A call returns [raised |-> TRUE, error |-> message] or *)
(* [raised |-> FALSE, value |-> result].                                   *)
(***************************************************************************)

Raise(msg) == [raised |-> TRUE, error |-> msg]

Return(v) == [raised |-> FALSE, value |-> v]

\* extraction_confidence, in hundredths
NativeConfidence == 95

\* the native score copied into the OCR result
OcrConfidence_AsNative == NativeConfidence

OcrConfidence == 85

DoclingConfidence == 90

\* the title loop of extract_with_pypdf2 and extract_with_ocr
NativeTitleLines == 10

NativeTitleMinLen == 10

TitleMaxLen == 100

\* the title loop of extract_with_docling
DoclingTitleLines == 5

DoclingTitleMinLen == 5

\* for line in lines[:10]: first line that passes the tests, else title
RECURSIVE NativeTitleFrom(_, _, _)
NativeTitleFrom(lines, i, title) ==
    IF i > Len(lines) \/ i > NativeTitleLines THEN title
    ELSE LET clean_line == Strip(lines[i])
         IN  IF /\ Len(clean_line) > NativeTitleMinLen
                /\ Len(clean_line) < TitleMaxLen
                /\ ~IsDigit(clean_line)
                /\ ~Contains(clean_line, PageWord)
             THEN clean_line
             ELSE NativeTitleFrom(lines, i + 1, title)

NativeTitle(text_content, filename) ==
    NativeTitleFrom(Split(text_content, "LF"), 1, RemoveSubstr(filename, DotPdf))

\* for line in lines[:5]: line.strip().replace('#', '').strip()
RECURSIVE DoclingTitleFrom(_, _, _)
DoclingTitleFrom(lines, i, title) ==
    IF i > Len(lines) \/ i > DoclingTitleLines THEN title
    ELSE LET clean_line == Strip(RemoveAll(Strip(lines[i]), {"#"}))
         IN  IF /\ Len(clean_line) > DoclingTitleMinLen
                /\ Len(clean_line) < TitleMaxLen
             THEN clean_line
             ELSE DoclingTitleFrom(lines, i + 1, title)

\* the structural extractor given the title loop of the other two
DoclingTitle_AsNative(content, filename) == NativeTitle(content, filename)

DoclingTitle(content, filename) ==
    DoclingTitleFrom(Split(content, "LF"), 1, RemoveSubstr(filename, DotPdf))

\* the page loop of extract_with_pypdf2: text_content after pages i..
RECURSIVE NativePagesFrom(_, _)
NativePagesFrom(pages, i) ==
    IF i > Len(pages) THEN <<>>
    ELSE (IF Strip(pages[i]) # <<>>
          THEN PageMarker(i) \o pages[i] \o <<"LF">>
          ELSE <<>>) \o NativePagesFrom(pages, i + 1)

\* the page loop of extract_with_ocr
RECURSIVE OcrPagesFrom(_, _)
OcrPagesFrom(pages, i) ==
    IF i > Len(pages) THEN <<>>
    ELSE (IF Strip(pages[i]) # <<>>
          THEN PageMarker(i) \o Strip(pages[i]) \o <<"LF">>
          ELSE <<>>) \o OcrPagesFrom(pages, i + 1)

\* extract_with_pypdf2 without the "No text found" test of line 158
extract_with_pypdf2_NoEmptyTest(view, filename) ==
    IF view.raises THEN Raise("PdfReader error")
    ELSE LET text_content ==
                 clean_text_for_database(NativePagesFrom(view.pages, 1))
         IN  Return(
               [success |-> TRUE,
                method |-> "pypdf2",
                title |-> clean_text_for_database(NativeTitle(text_content, filename)),
                content |-> Strip(text_content),
                raw_text |-> Strip(text_content),
                metadata |->
                  [word_count |-> WordCount(text_content),
                   page_count |-> Len(view.pages),
                   extraction_method |-> "pypdf2_native",
                   filename |-> filename,
                   has_tables |-> FALSE,
                   has_images |-> FALSE],
                extraction_confidence |-> NativeConfidence])

\* view: what PdfReader and page.extract_text() do with the file
extract_with_pypdf2(view, filename) ==
    IF view.raises THEN Raise("PdfReader error")
    ELSE LET raw == NativePagesFrom(view.pages, 1)
             text_content == clean_text_for_database(raw)
         IN  IF Strip(raw) = <<>>
             THEN Raise("No text found in PDF - may be scanned")
             ELSE Return(
               [success |-> TRUE,
                method |-> "pypdf2",
                title |-> clean_text_for_database(NativeTitle(text_content, filename)),
                content |-> Strip(text_content),
                raw_text |-> Strip(text_content),
                metadata |->
                  [word_count |-> WordCount(text_content),
                   page_count |-> Len(view.pages),
                   extraction_method |-> "pypdf2_native",
                   filename |-> filename,
                   has_tables |-> FALSE,
                   has_images |-> FALSE],
                extraction_confidence |-> NativeConfidence])

\* view: what convert_from_path and pytesseract.image_to_string do
extract_with_ocr(view, filename) ==
    IF view.raises THEN Raise("OCR backend error")
    ELSE LET raw == OcrPagesFrom(view.pages, 1)
             text_content == clean_text_for_database(raw)
         IN  IF Strip(raw) = <<>>
             THEN Raise("No text extracted from PDF using OCR")
             ELSE Return(
               [success |-> TRUE,
                method |-> "ocr_pytesseract",
                title |-> clean_text_for_database(NativeTitle(text_content, filename)),
                content |-> Strip(text_content),
                raw_text |-> Strip(text_content),
                metadata |->
                  [word_count |-> WordCount(text_content),
                   page_count |-> Len(view.pages),
                   extraction_method |-> "ocr_pytesseract",
                   filename |-> filename,
                   has_tables |-> FALSE,
                   has_images |-> FALSE],
                extraction_confidence |-> OcrConfidence])

\* line.startswith('|') in place of '|' in line
HasTables_StartsWith(content) ==
    LET lines == Split(content, "LF")
    IN  \E k \in 1..Len(lines) : MatchAt(lines[k], 1, <<"|">>)

\* any('|' in line for line in content.split('\n'))
HasTables(content) ==
    LET lines == Split(content, "LF")
    IN  \E k \in 1..Len(lines) : Contains(lines[k], <<"|">>)

\* '![' in content
HasImages(content) == Contains(content, ImageMarkup)

\* view: what converter.convert and export_to_markdown do; view.page_count
\* is len(result.document.pages), or 1 without that attribute
extract_with_docling(view, filename) ==
    IF view.raises THEN Raise("Docling conversion error")
    ELSE LET content == clean_text_for_database(view.markdown)
         IN  Return(
               [success |-> TRUE,
                method |-> "docling",
                title |-> clean_text_for_database(DoclingTitle(content, filename)),
                content |-> Strip(content),
                raw_text |-> Strip(content),
                metadata |->
                  [word_count |-> WordCount(content),
                   page_count |-> view.page_count,
                   extraction_method |-> "docling",
                   filename |-> filename,
                   has_tables |-> HasTables(content),
                   has_images |-> HasImages(content)],
                extraction_confidence |-> DoclingConfidence])


(***************************************************************************)
(* The enhanced service: module state and the /extract handler             *)
(***************************************************************************)

VARIABLES
    PYPDF2_AVAILABLE,       \* capability flags, set by the import-time probes
    PYTESSERACT_AVAILABLE,
    PDF2IMAGE_AVAILABLE,
    DOCLING_AVAILABLE,
    FITZ_AVAILABLE,
    PIL_AVAILABLE,
    pc,                     \* position of the process / of the handler
    request,                \* pdf_url, filename, generate_preview of the request
    temp_dir,               \* the handler's tempfile.TemporaryDirectory
    pdf_path,               \* where the handler reads the document from
    preview_image,          \* the handler's local preview_image
    preview_log,            \* last log line of generate_pdf_preview_image
    attempts,               \* the strategies called so far, with their outcome
    response,               \* what the handler returned
    nativeView,             \* what PyPDF2 makes of the document
    ocrView,                \* what pdf2image and pytesseract make of it
    doclingView,            \* what Docling makes of it
    served,                 \* number of requests answered
    prev,                   \* the answer to the first request that reached the chain
    fn_arg,                 \* pure-function checks: the argument
    fn_ret,                 \* pure-function checks: the values returned so far
    fn_pc,                  \* pure-function checks: position
    simple_pc,              \* simple service: position of the handler
    simple_request,         \* simple service: endpoint and what was sent
    temp_file,              \* simple service: the handler's NamedTemporaryFile
    simple_result,          \* simple service: the handler's local result
    calls,                  \* simple service: the extractors called, in order
    simple_response         \* simple service: what the handler returned

flags == <<PYPDF2_AVAILABLE, PYTESSERACT_AVAILABLE, PDF2IMAGE_AVAILABLE,
           DOCLING_AVAILABLE, FITZ_AVAILABLE, PIL_AVAILABLE>>

views == <<nativeView, ocrView, doclingView>>

handler == <<request, temp_dir, pdf_path, preview_image, preview_log,
             attempts, response>>

fn == <<fn_arg, fn_ret, fn_pc>>

simple == <<simple_pc, simple_request, temp_file, simple_result, calls,
            simple_response>>

vars == <<flags, pc, handler, views, served, prev, fn, simple>>

\* requests one behaviour answers
MaxRequests == 2

\* pages of a document
MaxPages == 2

\* all sequences over S of length at most n
SeqsUpTo(S, n) == UNION {[1..k -> S] : k \in 0..n}

\* what page.extract_text() returns for a page
PageTexts == {<<>>, <<"SP", "LF">>, <<"H", "i", ".">>}

\* what pytesseract.image_to_string returns for a page image
OcrPageTexts == {<<"LF">>, <<"o", "k">>}

\* what export_to_markdown returns
Markdowns == {<<>>, <<"#", "SP", "T", "LF", "|", "a", "|">>}

NativeViews ==
    {[raises |-> TRUE, pages |-> <<>>]}
        \cup {[raises |-> FALSE, pages |-> p] : p \in SeqsUpTo(PageTexts, MaxPages)}

OcrViews ==
    {[raises |-> TRUE, pages |-> <<>>]}
        \cup {[raises |-> FALSE, pages |-> p] : p \in SeqsUpTo(OcrPageTexts, MaxPages)}

DoclingViews ==
    {[raises |-> TRUE, markdown |-> <<>>, page_count |-> 1]}
        \cup {[raises |-> FALSE, markdown |-> m, page_count |-> n] :
                m \in Markdowns, n \in {1, MaxPages}}

\* data.get('filename', 'document.pdf')
Filenames == {<<"d", "o", "c", ".", "p", "d", "f">>, <<"s", "c", "a", "n">>}

UrlKinds == {"http", "local", "not_a_string"}

\* a backend that has not been asked yet has given no answer
Unknown == {}

NoRequest == [pdf_url |-> "none", filename |-> <<>>, generate_preview |-> FALSE]

NoResponse == [status |-> 0, body |-> [none |-> TRUE]]

NoPrev == NoResponse

None == "None"

PreviewDataUri == "data:image/png;base64,..."

AllFailedMessage ==
    "All extraction methods failed. PDF may be corrupted or unsupported format."

(***************************************************************************)
(* Import-time probes                                                      *)
(***************************************************************************)

Libs == {"PyPDF2", "pytesseract", "pdf2image", "docling", "DocumentConverter",
         "fitz", "PIL"}

\* an import (or DocumentConverter()) succeeds, raises ImportError, or
\* raises another exception
ProbeOutcomes == {"ok", "ImportError", "Error"}

\* the try blocks in program order, each with the statements it runs
ProbeBlocks ==
    << <<"PyPDF2">>, <<"pytesseract", "pdf2image">>,
       <<"docling", "DocumentConverter">>, <<"fitz">>, <<"PIL">> >>

\* outcome of a try block: the first statement that does not succeed decides
RECURSIVE BlockOutcomeFrom(_, _, _)
BlockOutcomeFrom(o, stmts, i) ==
    IF i > Len(stmts) THEN "ok"
    ELSE IF o[stmts[i]] # "ok" THEN o[stmts[i]]
         ELSE BlockOutcomeFrom(o, stmts, i + 1)

BlockOutcome(o, k) == BlockOutcomeFrom(o, ProbeBlocks[k], 1)

\* only ImportError is caught: any other exception ends the import
CrashedBy(o, k) == \E j \in 1..k : BlockOutcome(o, j) = "Error"

\* the flag of block k: True once the block ran to its end
FlagAfter(o, k) == ~CrashedBy(o, k) /\ BlockOutcome(o, k) = "ok"

(***************************************************************************)
(* generate_pdf_preview_image                                              *)
(***************************************************************************)

\* what fitz and PIL do with the file
FitzBehaviours == {"open_error", "no_pages", "render_error", "save_error", "ok"}

\* generate_pdf_preview_image without its try/except
generate_pdf_preview_image_NoCatch(fitz, pil, behaviour) ==
    IF ~fitz \/ ~pil THEN Return(None)
    ELSE IF behaviour = "no_pages" THEN Return(None)
    ELSE IF behaviour = "ok" THEN Return(PreviewDataUri)
    ELSE Raise("fitz error")

generate_pdf_preview_image(fitz, pil, behaviour) ==
    IF ~fitz \/ ~pil THEN Return(None)
    ELSE IF behaviour = "no_pages" THEN Return(None)
    ELSE IF behaviour = "ok" THEN Return(PreviewDataUri)
    ELSE Return(None)

\* the last line generate_pdf_preview_image logs
PreviewLogLine(fitz, pil, behaviour) ==
    IF ~fitz \/ ~pil THEN "PyMuPDF or PIL not available for preview generation"
    ELSE IF behaviour = "no_pages" THEN "PDF has no pages"
    ELSE IF behaviour = "ok" THEN "PDF preview image generated successfully"
    ELSE "Error generating PDF preview image"

(***************************************************************************)
(* extract_pdf                                                             *)
(***************************************************************************)

\* the OCR strategy tried without looking at its flags
OcrUsable_Always == TRUE

OcrUsable == PYTESSERACT_AVAILABLE /\ PDF2IMAGE_AVAILABLE

\* the preview attached without the test of line 373
WithPreview_Unconditional(result, image) == result @@ [preview_image |-> image]

\* if preview_image: result['preview_image'] = preview_image
WithPreview(result, image) ==
    IF image # None THEN result @@ [preview_image |-> image] ELSE result

Json(status, body) == [status |-> status, body |-> body]

MissingUrlResponse ==
    Json(400, [success |-> FALSE, error |-> "Missing pdf_url in request"])

\* f'PDF file not found: {pdf_path}'
NotFoundResponse ==
    Json(404, [success |-> FALSE, error |-> "PDF file not found: local path"])

\* the final return handing out the cause of the last failure
AllFailedResponse_LastCause ==
    Json(500, [success |-> FALSE,
               error |-> IF attempts = <<>> THEN ""
                         ELSE attempts[Len(attempts)].error])

AllFailedResponse ==
    Json(500, [success |-> FALSE, error |-> AllFailedMessage])

\* the outer handler answering with the error alone
OuterHandlerResponse_NoDiscriminant(msg) == Json(500, [error |-> msg])

\* except Exception as e: ... 'error': str(e)
OuterHandlerResponse(msg) ==
    Json(500, [success |-> FALSE, error |-> msg])

Attempt(strategy, r) ==
    [strategy |-> strategy, ok |-> ~r.raised,
     error |-> IF r.raised THEN r.error ELSE ""]

\* state of the handler's locals between two requests
HandlerIdle ==
    /\ temp_dir = "absent"
    /\ pdf_path = None
    /\ preview_image = None
    /\ preview_log = ""
    /\ attempts = <<>>
    /\ response = NoResponse

FnIdle ==
    /\ fn_arg = <<>>
    /\ fn_ret = <<>>
    /\ fn_pc = "off"

\* a simple-service extractor returned None
NoResult == [none |-> TRUE]

NoSimpleRequest == [endpoint |-> "none"]

\* the simple service is not part of the behaviour
SimpleOff ==
    /\ simple_pc = "off"
    /\ simple_request = NoSimpleRequest
    /\ temp_file = None
    /\ simple_result = NoResult
    /\ calls = <<>>
    /\ simple_response = NoResponse

Init ==
    /\ PYPDF2_AVAILABLE = FALSE
    /\ PYTESSERACT_AVAILABLE = FALSE
    /\ PDF2IMAGE_AVAILABLE = FALSE
    /\ DOCLING_AVAILABLE = FALSE
    /\ FITZ_AVAILABLE = FALSE
    /\ PIL_AVAILABLE = FALSE
    /\ pc = "boot"
    /\ request = NoRequest
    /\ HandlerIdle
    /\ nativeView = Unknown
    /\ ocrView = Unknown
    /\ doclingView = Unknown
    /\ served = 0
    /\ prev = NoPrev
    /\ FnIdle
    /\ SimpleOff

\* lines 37-74 when the imports and the constructor behave as o says
Probes(o) ==
    /\ PYPDF2_AVAILABLE' = FlagAfter(o, 1)
    /\ PYTESSERACT_AVAILABLE' = FlagAfter(o, 2)
    /\ PDF2IMAGE_AVAILABLE' = FlagAfter(o, 2)
    /\ DOCLING_AVAILABLE' = FlagAfter(o, 3)
    /\ FITZ_AVAILABLE' = FlagAfter(o, 4)
    /\ PIL_AVAILABLE' = FlagAfter(o, 5)
    /\ pc' = IF CrashedBy(o, Len(ProbeBlocks)) THEN "crashed" ELSE "idle"

\* lines 37-74: the probes run once, when the module is imported
Startup ==
    /\ pc = "boot"
    /\ \E o \in [Libs -> ProbeOutcomes] : Probes(o)
    /\ UNCHANGED <<handler, views, served, prev, fn, simple>>

\* lines 319-334: the request arrives
Receive ==
    /\ pc = "idle"
    /\ served = 0
    /\ \/ /\ \E body \in {"no_json", "no_pdf_url", "get_json_raises"} :
               response' = IF body = "get_json_raises"
                           THEN OuterHandlerResponse("400 Bad Request")
                           ELSE MissingUrlResponse
          /\ pc' = "done"
          /\ UNCHANGED <<request, temp_dir, pdf_path, preview_image,
                         preview_log, attempts>>
       \/ /\ \E u \in UrlKinds, f \in Filenames, g \in BOOLEAN :
               request' = [pdf_url |-> u, filename |-> f,
                           generate_preview |-> g]
          /\ pc' = "fetch"
          /\ UNCHANGED <<temp_dir, pdf_path, preview_image, preview_log,
                         attempts, response>>
    /\ UNCHANGED <<flags, views, served, prev, fn, simple>>

\* lines 337-362: the temporary directory, then download or local path
Fetch ==
    /\ pc = "fetch"
    /\ \E outcome \in {"ok", "failed"} :
        IF outcome = "ok" /\ request.pdf_url # "not_a_string"
        THEN /\ temp_dir' = "exists"
             /\ pdf_path' = IF request.pdf_url = "http"
                            THEN "temp_dir/filename" ELSE "local path"
             /\ pc' = "preview"
             /\ UNCHANGED response
        ELSE /\ temp_dir' = "removed"
             /\ response' =
                  CASE request.pdf_url = "http" ->
                         OuterHandlerResponse("download failed")
                    [] request.pdf_url = "local" -> NotFoundResponse
                    [] OTHER ->
                         OuterHandlerResponse("object has no attribute 'startswith'")
             /\ pc' = "done"
             /\ UNCHANGED pdf_path
    /\ UNCHANGED <<flags, views, served, prev, fn, simple, request, preview_image,
                   preview_log, attempts>>

\* lines 364-367
Preview ==
    /\ pc = "preview"
    /\ IF request.generate_preview
       THEN \E b \in FitzBehaviours :
              LET r == generate_pdf_preview_image(FITZ_AVAILABLE, PIL_AVAILABLE, b)
              IN  IF r.raised
                  THEN /\ response' = OuterHandlerResponse(r.error)
                       /\ temp_dir' = "removed"
                       /\ pc' = "done"
                       /\ UNCHANGED <<preview_image, preview_log>>
                  ELSE /\ preview_image' = r.value
                       /\ preview_log' =
                            PreviewLogLine(FITZ_AVAILABLE, PIL_AVAILABLE, b)
                       /\ pc' = "pypdf2"
                       /\ UNCHANGED <<response, temp_dir>>
       ELSE /\ pc' = "pypdf2"
            /\ UNCHANGED <<preview_image, preview_log, response, temp_dir>>
    /\ UNCHANGED <<flags, views, served, prev, fn, simple, request, pdf_path, attempts>>

\* the answers a backend can give: the one it gave before, if it was asked
Answers(view, all) == IF view = Unknown THEN all ELSE view

\* lines 369-378
TryPyPDF2 ==
    /\ pc = "pypdf2"
    /\ IF PYPDF2_AVAILABLE
       THEN \E v \in Answers(nativeView, NativeViews) :
              LET r == extract_with_pypdf2(v, request.filename)
              IN  /\ nativeView' = {v}
                  /\ attempts' = Append(attempts, Attempt("pypdf2", r))
                  /\ IF ~r.raised
                     THEN /\ response' = Json(200, WithPreview(r.value, preview_image))
                          /\ temp_dir' = "removed"
                          /\ pc' = "done"
                     ELSE /\ pc' = "ocr"
                          /\ UNCHANGED <<response, temp_dir>>
       ELSE /\ pc' = "ocr"
            /\ UNCHANGED <<nativeView, attempts, response, temp_dir>>
    /\ UNCHANGED <<flags, ocrView, doclingView, served, prev, fn, simple, request,
                   pdf_path, preview_image, preview_log>>

\* lines 380-389
TryOCR ==
    /\ pc = "ocr"
    /\ IF OcrUsable
       THEN \E v \in Answers(ocrView, OcrViews) :
              LET r == extract_with_ocr(v, request.filename)
              IN  /\ ocrView' = {v}
                  /\ attempts' = Append(attempts, Attempt("ocr", r))
                  /\ IF ~r.raised
                     THEN /\ response' = Json(200, WithPreview(r.value, preview_image))
                          /\ temp_dir' = "removed"
                          /\ pc' = "done"
                     ELSE /\ pc' = "docling"
                          /\ UNCHANGED <<response, temp_dir>>
       ELSE /\ pc' = "docling"
            /\ UNCHANGED <<ocrView, attempts, response, temp_dir>>
    /\ UNCHANGED <<flags, nativeView, doclingView, served, prev, fn, simple, request,
                   pdf_path, preview_image, preview_log>>

\* lines 391-406
TryDocling ==
    /\ pc = "docling"
    /\ IF DOCLING_AVAILABLE
       THEN \E v \in Answers(doclingView, DoclingViews) :
              LET r == extract_with_docling(v, request.filename)
              IN  /\ doclingView' = {v}
                  /\ attempts' = Append(attempts, Attempt("docling", r))
                  /\ response' =
                       IF ~r.raised
                       THEN Json(200, WithPreview(r.value, preview_image))
                       ELSE AllFailedResponse
       ELSE /\ response' = AllFailedResponse
            /\ UNCHANGED <<doclingView, attempts>>
    /\ temp_dir' = "removed"
    /\ pc' = "done"
    /\ UNCHANGED <<flags, nativeView, ocrView, served, prev, fn, simple, request,
                   pdf_path, preview_image, preview_log>>

\* an envelope without its preview
WithoutPreview(body) ==
    [k \in DOMAIN body \ {"preview_image"} |-> body[k]]

\* the response has been sent; the handler's locals are gone
Respond ==
    /\ pc = "done"
    /\ served' = served + 1
    /\ prev' = IF prev = NoPrev /\ pdf_path # None
               THEN response
               ELSE prev
    /\ temp_dir' = "absent"
    /\ pdf_path' = None
    /\ preview_image' = None
    /\ preview_log' = ""
    /\ attempts' = <<>>
    /\ response' = NoResponse
    /\ pc' = "idle"
    /\ UNCHANGED <<flags, views, request, fn, simple>>

\* the request that reached the chain is sent again, for the same document;
\* only generate_preview may differ
ReceiveAgain ==
    /\ pc = "idle"
    /\ served > 0
    /\ served < MaxRequests
    /\ prev # NoPrev
    /\ \E g \in BOOLEAN : request' = [request EXCEPT !.generate_preview = g]
    /\ pc' = "fetch"
    /\ UNCHANGED <<flags, views, served, prev, fn, simple, temp_dir, pdf_path,
                   preview_image, preview_log, attempts, response>>

\* the service is restarted where only the preview libraries have changed
Redeploy ==
    /\ pc = "idle"
    /\ served > 0
    /\ served < MaxRequests
    /\ prev # NoPrev
    /\ \E f \in BOOLEAN, p \in BOOLEAN :
        /\ <<f, p>> # <<FITZ_AVAILABLE, PIL_AVAILABLE>>
        /\ FITZ_AVAILABLE' = f
        /\ PIL_AVAILABLE' = p
    /\ UNCHANGED <<PYPDF2_AVAILABLE, PYTESSERACT_AVAILABLE, PDF2IMAGE_AVAILABLE,
                   DOCLING_AVAILABLE, pc, handler, views, served, prev, fn, simple>>

Next ==
    \/ Startup
    \/ Receive
    \/ Fetch
    \/ Preview
    \/ TryPyPDF2
    \/ TryOCR
    \/ TryDocling
    \/ Respond

\* one request per behaviour
Spec == Init /\ [][Next]_vars

NextRepeat ==
    \/ Next
    \/ ReceiveAgain
    \/ Redeploy

\* the same document is requested up to MaxRequests times
SpecRepeat == Init /\ [][NextRepeat]_vars


(***************************************************************************)
(* clean_text_for_database applied to every short string, and again to     *)
(* what it returned                                                        *)
(***************************************************************************)

\* length of the strings sanitized
MaxLen == 4

\* times the sanitizer is applied in a row
MaxApplications == 2

\* one character of every class the sanitizer tells apart
CleanAlphabet ==
    {"NUL", "BEL", "U+FFFD", "U+E000", "U+FFFE", "U+F0000",
     "SP", "TAB", ".", "!", ",", "a"}

HandlerOff ==
    /\ PYPDF2_AVAILABLE = FALSE
    /\ PYTESSERACT_AVAILABLE = FALSE
    /\ PDF2IMAGE_AVAILABLE = FALSE
    /\ DOCLING_AVAILABLE = FALSE
    /\ FITZ_AVAILABLE = FALSE
    /\ PIL_AVAILABLE = FALSE
    /\ pc = "off"
    /\ request = NoRequest
    /\ HandlerIdle
    /\ nativeView = Unknown
    /\ ocrView = Unknown
    /\ doclingView = Unknown
    /\ served = 0
    /\ prev = NoPrev

InitClean ==
    /\ HandlerOff
    /\ SimpleOff
    /\ fn_arg \in SeqsUpTo(CleanAlphabet, MaxLen)
    /\ fn_ret = <<>>
    /\ fn_pc = "clean"

\* clean_text_for_database(text), text being the argument or the last result
Sanitize ==
    /\ fn_pc = "clean"
    /\ Len(fn_ret) < MaxApplications
    /\ fn_ret' = Append(fn_ret,
         clean_text_for_database(
             IF fn_ret = <<>> THEN fn_arg ELSE fn_ret[Len(fn_ret)]))
    /\ UNCHANGED <<flags, pc, handler, views, served, prev, fn_arg, fn_pc, simple>>

SpecClean == InitClean /\ [][Sanitize]_vars

(***************************************************************************)
(* The three extractors applied to bounded documents                       *)
(***************************************************************************)

\* pieces a converter output is made of
MaxSegs == 3

\* c repeated n times
Rep(c, n) == [i \in 1..n |-> c]

RECURSIVE Concat(_)
Concat(ss) == IF ss = <<>> THEN <<>> ELSE Head(ss) \o Concat(Tail(ss))

\* with one six-letter word, a line of exactly TitleMaxLen characters
LongFiller == TitleMaxLen - 6

MdSegments ==
    {<<"#">>, <<"SP">>, <<"LF">>, <<"|">>, <<"!">>, <<"[">>, <<".">>, <<"NUL">>,
     <<"a", "b", "c", "d", "e", "f">>, <<"1", "2", "3", "4", "5", "6">>,
     PageWord, Rep("x", LongFiller)}

ExtractMarkdowns == {Concat(ss) : ss \in SeqsUpTo(MdSegments, MaxSegs)}

\* page texts: empty, blank, a short line, a line long enough for a title
\* followed by a second line, a number
ExtractPageTexts ==
    {<<>>, <<"SP", "LF">>, <<"H", "i", ".">>,
     <<"Q", "u", "a", "r", "t", "e", "r", "l", "y", "SP", "r", "e", "p", "o",
       "r", "t", "LF", "b", "o", "d", "y">>,
     <<"1", "2", "3", "4", "5", "6", "7", "8", "9", "0", "1", "2">>}

ExtractFilenames ==
    {<<"d", "o", "c", ".", "p", "d", "f">>,
     <<"a", ".", "p", "d", "f", ".", "p", "d", "f">>,
     <<"m", "y", "SP", "SP", "s", "c", "a", "n">>}

ExtractArgs ==
    [strategy : {"pypdf2", "ocr"},
     view : {[raises |-> FALSE, pages |-> p] :
               p \in SeqsUpTo(ExtractPageTexts, MaxPages)},
     filename : ExtractFilenames]
    \cup
    [strategy : {"docling"},
     view : {[raises |-> FALSE, markdown |-> m, page_count |-> 1] :
               m \in ExtractMarkdowns},
     filename : ExtractFilenames]

InitExtract ==
    /\ HandlerOff
    /\ SimpleOff
    /\ fn_arg \in ExtractArgs
    /\ fn_ret = <<>>
    /\ fn_pc = "extract"

\* result = extract_with_...(pdf_path, filename)
Extract ==
    /\ fn_pc = "extract"
    /\ fn_ret' =
         <<CASE fn_arg.strategy = "pypdf2" ->
                  extract_with_pypdf2(fn_arg.view, fn_arg.filename)
             [] fn_arg.strategy = "ocr" ->
                  extract_with_ocr(fn_arg.view, fn_arg.filename)
             [] OTHER ->
                  extract_with_docling(fn_arg.view, fn_arg.filename)>>
    /\ fn_pc' = "returned"
    /\ UNCHANGED <<flags, pc, handler, views, served, prev, fn_arg, simple>>

SpecExtract == InitExtract /\ [][Extract]_vars


(***************************************************************************)
(* The simple service: its two extractors                                  *)
(***************************************************************************)

\* what page.get_text() / page.extract_text() does for a page
SimplePages ==
    {[raises |-> TRUE, text |-> <<>>]}
        \cup {[raises |-> FALSE, text |-> t] : t \in {<<>>, <<"SP">>, <<"H", "i">>}}

\* os.path.exists and os.path.getsize of the file the extractor is given
FileStates == {"missing", "empty", "present"}

\* what fitz.open gives: an exception, a closed document, or a document
FitzViews ==
    {[opens |-> o, pages |-> <<>>, metadata |-> {}] : o \in {"error", "closed"}}
        \cup {[opens |-> "ok", pages |-> p, metadata |-> m] :
                p \in SeqsUpTo(SimplePages, MaxPages), m \in {{}, {"title"}}}

\* what PyPDF2.PdfReader gives: PdfReadError, another exception, an
\* encrypted document, or a document
PdfReaderViews ==
    {[reads |-> o, pages |-> <<>>] : o \in {"PdfReadError", "error", "encrypted"}}
        \cup {[reads |-> "ok", pages |-> p] : p \in SeqsUpTo(SimplePages, MaxPages)}

\* the page loop of both extractors: a page whose text is empty or whose
\* extraction raises adds nothing
RECURSIVE SimplePagesFrom(_, _)
SimplePagesFrom(pages, i) ==
    IF i > Len(pages) THEN <<>>
    ELSE (IF ~pages[i].raises /\ pages[i].text # <<>>
          THEN pages[i].text \o <<"LF">>
          ELSE <<>>) \o SimplePagesFrom(pages, i + 1)

extract_with_pymupdf(file, view) ==
    IF file # "present" THEN NoResult
    ELSE IF view.opens # "ok" THEN NoResult
    ELSE IF Len(view.pages) = 0 THEN NoResult
    ELSE [none |-> FALSE,
          text |-> Strip(SimplePagesFrom(view.pages, 1)),
          page_count |-> Len(view.pages),
          metadata |-> view.metadata,
          method |-> "PyMuPDF"]

\* extract_with_pypdf2 of the simple service
simple_extract_with_pypdf2(file, view) ==
    IF file # "present" THEN NoResult
    ELSE IF view.reads # "ok" THEN NoResult
    ELSE IF Len(view.pages) = 0 THEN NoResult
    ELSE [none |-> FALSE,
          text |-> Strip(SimplePagesFrom(view.pages, 1)),
          page_count |-> Len(view.pages),
          method |-> "PyPDF2"]


(***************************************************************************)
(* The simple service: upload_and_extract and extract_pdf                  *)
(***************************************************************************)

\* s.startswith(pat)
StartsWith(s, pat) == MatchAt(s, 1, pat)

\* s.endswith(pat)
EndsWith(s, pat) ==
    Len(s) >= Len(pat) /\ MatchAt(s, Len(s) - Len(pat) + 1, pat)

\* str.lower(), for the capitals that occur in the file names below
LowerOf == [c \in {"A", "P", "D", "F"} |->
              CASE c = "A" -> "a" [] c = "P" -> "p" [] c = "D" -> "d" [] c = "F" -> "f"]

Lower(s) == [i \in 1..Len(s) |-> IF s[i] \in DOMAIN LowerOf THEN LowerOf[s[i]] ELSE s[i]]

Http == <<"h", "t", "t", "p", ":", "/", "/">>

Https == <<"h", "t", "t", "p", "s", ":", "/", "/">>

FileScheme == <<"f", "i", "l", "e", ":", "/", "/">>

\* 'PDF Document'
PdfDocument == <<"P", "D", "F", "SP", "D", "o", "c", "u", "m", "e", "n", "t">>

\* file.filename of the upload
UploadFilenames ==
    {<<>>, <<"a", ".", "t", "x", "t">>, <<"a", ".", "p", "d", "f">>,
     <<"A", ".", "P", "D", "F">>}

\* file_path or pdf_url of the request
FilePaths ==
    {Http \o <<"h", "/", "a", ".", "p", "d", "f">>,
     Https \o <<"h", "/", "a", ".", "p", "d", "f">>,
     FileScheme \o <<"/", "a", ".", "p", "d", "f">>,
     <<"/", "t", "/", "a", ".", "p", "d", "f">>,
     <<"a", ".", "p", "d", "f">>}

\* jsonify({'error': ...}), status
SimpleError(status, msg) == Json(status, [error |-> msg])

\* the outer except Exception of both handlers
SimpleOuterResponse(msg) == Json(500, [error |-> msg, success |-> FALSE])

\* the answers to a file:// path
LocalFileResponse(docling_available) ==
    IF docling_available
    THEN Json(400, [error |-> "Local file paths require direct upload. Please use the upload endpoint or select the file again.",
                    code |-> "LOCAL_FILE_UPLOAD_REQUIRED",
                    suggestion |-> "Use the /upload endpoint with multipart/form-data to upload the file directly.",
                    docling_available |-> TRUE,
                    upload_endpoint |-> "{docling_url}/upload"])
    ELSE Json(400, [error |-> "Local file paths are not accessible from the server. Please upload the file directly.",
                    code |-> "LOCAL_FILE_ACCESS_DENIED",
                    docling_available |-> FALSE])

\* f"Extracted {word_count} words from {page_count} pages"
Summary(word_count, page_count) ==
    <<"E", "x", "t", "r", "a", "c", "t", "e", "d", "SP">> \o Decimal(word_count)
        \o <<"SP", "w", "o", "r", "d", "s", "SP", "f", "r", "o", "m", "SP">>
        \o Decimal(page_count) \o <<"SP", "p", "a", "g", "e", "s">>

\* the title of the upload handler (line 197) and of the extract handler
\* (line 331)
SimpleTitle(req) ==
    IF req.endpoint = "upload"
    THEN (IF req.filename # <<>> THEN RemoveSubstr(req.filename, DotPdf)
          ELSE PdfDocument)
    ELSE (IF Contains(req.file_path, <<"/">>)
          THEN LET parts == Split(req.file_path, "/")
               IN  RemoveSubstr(parts[Len(parts)], DotPdf)
          ELSE PdfDocument)

\* response_data
SimpleSuccess(r, title) ==
    Json(200,
         [success |-> TRUE,
          content |-> r.text,
          title |-> title,
          method |-> r.method,
          extraction_method |-> r.method,
          word_count |-> IF r.text # <<>> THEN WordCount(r.text) ELSE 0,
          char_count |-> IF r.text # <<>> THEN Len(r.text) ELSE 0,
          page_count |-> r.page_count,
          metadata |-> IF "metadata" \in DOMAIN r THEN r.metadata ELSE {},
          summary |-> Summary(IF r.text # <<>> THEN WordCount(r.text) ELSE 0,
                              r.page_count)])

\* not result, treating a result without text as no result
Falsy_EmptyText(r) == r = NoResult \/ r.text = <<>>

\* not result: None is falsy, a result dict never is
Falsy(r) == r = NoResult

InitSimple ==
    /\ HandlerOff
    /\ FnIdle
    /\ simple_pc = "idle"
    /\ simple_request = NoSimpleRequest
    /\ temp_file = None
    /\ simple_result = NoResult
    /\ calls = <<>>
    /\ simple_response = NoResponse

\* upload_and_extract, lines 161-172
UploadReceive ==
    /\ simple_pc = "idle"
    /\ \E has_file \in BOOLEAN, f \in UploadFilenames, st \in {"empty", "present"} :
        /\ simple_request' = [endpoint |-> "upload", has_file |-> has_file,
                              filename |-> f, file |-> st]
        /\ IF ~has_file
           THEN /\ simple_response' = SimpleError(400, "No file uploaded")
                /\ simple_pc' = "done"
           ELSE IF f = <<>>
           THEN /\ simple_response' = SimpleError(400, "No file selected")
                /\ simple_pc' = "done"
           ELSE IF ~EndsWith(Lower(f), DotPdf)
           THEN /\ simple_response' = SimpleError(400, "Only PDF files are supported")
                /\ simple_pc' = "done"
           ELSE /\ simple_pc' = "save"
                /\ UNCHANGED simple_response
    /\ UNCHANGED <<flags, pc, handler, views, served, prev, fn, temp_file,
                   simple_result, calls>>

\* upload_and_extract, lines 175-176: the temporary file is created and the
\* upload is written to it, outside the try whose finally removes it
UploadSave ==
    /\ simple_pc = "save"
    /\ \E outcome \in {"ok", "NamedTemporaryFile raises", "save raises"} :
        /\ temp_file' = IF outcome = "NamedTemporaryFile raises"
                        THEN temp_file ELSE "exists"
        /\ IF outcome = "ok"
           THEN /\ simple_pc' = "pymupdf"
                /\ UNCHANGED simple_response
           ELSE /\ simple_response' =
                     SimpleOuterResponse("PDF processing failed: " \o outcome)
                /\ simple_pc' = "done"
    /\ UNCHANGED <<flags, pc, handler, views, served, prev, fn, simple_request,
                   simple_result, calls>>

\* extract_pdf, lines 227-237
ExtractReceive ==
    /\ simple_pc = "idle"
    /\ \E json \in {"None", "no_path", "path_not_str", "ok"},
          fp \in FilePaths, st \in {"empty", "present"} :
        /\ simple_request' = [endpoint |-> "extract", json |-> json,
                              file_path |-> fp, file |-> st]
        /\ CASE json = "None" ->
                  /\ simple_response' = SimpleOuterResponse(
                       "PDF processing failed: 'NoneType' object has no attribute 'get'")
                  /\ simple_pc' = "done"
             [] json = "no_path" ->
                  /\ simple_response' =
                       SimpleError(400, "file_path or pdf_url is required")
                  /\ simple_pc' = "done"
             [] OTHER ->
                  /\ simple_pc' = "fetch"
                  /\ UNCHANGED simple_response
    /\ UNCHANGED <<flags, pc, handler, views, served, prev, fn, temp_file,
                   simple_result, calls>>

\* the finally of lines 344-350
Unlinked(file) == IF file = "exists" THEN "removed" ELSE file

\* extract_pdf, lines 238-311: download to a temporary file, refuse a
\* file:// path, or take a local path
ExtractFetch ==
    /\ simple_pc = "fetch"
    /\ LET fp == simple_request.file_path
       IN  IF simple_request.json = "path_not_str"
           THEN /\ simple_response' = SimpleOuterResponse(
                     "PDF processing failed: object has no attribute 'startswith'")
                /\ simple_pc' = "done"
                /\ UNCHANGED temp_file
           ELSE IF StartsWith(fp, Http) \/ StartsWith(fp, Https)
           THEN \E outcome \in {"RequestException", "empty", "NamedTemporaryFile raises",
                                 "write raises", "ok"} :
                  CASE outcome = "RequestException" ->
                         /\ simple_response' =
                              SimpleError(400, "Failed to download PDF: RequestException")
                         /\ simple_pc' = "done"
                         /\ UNCHANGED temp_file
                    [] outcome = "empty" ->
                         /\ simple_response' =
                              SimpleError(400, "Downloaded file is empty")
                         /\ simple_pc' = "done"
                         /\ UNCHANGED temp_file
                    [] outcome = "NamedTemporaryFile raises" ->
                         /\ simple_response' =
                              SimpleOuterResponse("PDF processing failed: " \o outcome)
                         /\ simple_pc' = "done"
                         /\ UNCHANGED temp_file
                    [] outcome = "write raises" ->
                         /\ simple_response' =
                              SimpleOuterResponse("PDF processing failed: " \o outcome)
                         /\ simple_pc' = "done"
                         /\ temp_file' = Unlinked("exists")
                    [] OTHER ->
                         /\ temp_file' = "exists"
                         /\ simple_pc' = "pymupdf"
                         /\ UNCHANGED simple_response
           ELSE IF StartsWith(fp, FileScheme)
           THEN /\ \E docling_available \in BOOLEAN :
                     simple_response' = LocalFileResponse(docling_available)
                /\ simple_pc' = "done"
                /\ UNCHANGED temp_file
           ELSE \E exists \in BOOLEAN :
                  IF exists
                  THEN /\ simple_pc' = "pymupdf"
                       /\ UNCHANGED <<simple_response, temp_file>>
                  ELSE /\ simple_response' = SimpleError(404, "File not found")
                       /\ simple_pc' = "done"
                       /\ UNCHANGED temp_file
    /\ UNCHANGED <<flags, pc, handler, views, served, prev, fn, simple_request,
                   simple_result, calls>>

\* the file the extractors read: the download is never empty (line 255)
FileRead ==
    IF simple_request.endpoint = "extract" /\ temp_file = "exists"
    THEN "present" ELSE simple_request.file

\* lines 180 and 314: result = extract_with_pymupdf(...)
SimpleTryPyMuPDF ==
    /\ simple_pc = "pymupdf"
    /\ \E v \in FitzViews :
        LET r == extract_with_pymupdf(FileRead, v)
        IN  /\ simple_result' = r
            /\ calls' = Append(calls, [extractor |-> "PyMuPDF", returned |-> r])
            /\ simple_pc' = IF Falsy(r) THEN "pypdf2" ELSE "assemble"
    /\ UNCHANGED <<flags, pc, handler, views, served, prev, fn, simple_request,
                   temp_file, simple_response>>

\* lines 181-184 and 315-318: the fallback
SimpleTryPyPDF2 ==
    /\ simple_pc = "pypdf2"
    /\ \E v \in PdfReaderViews :
        LET r == simple_extract_with_pypdf2(FileRead, v)
        IN  /\ simple_result' = r
            /\ calls' = Append(calls, [extractor |-> "PyPDF2", returned |-> r])
            /\ simple_pc' = "assemble"
    /\ UNCHANGED <<flags, pc, handler, views, served, prev, fn, simple_request,
                   temp_file, simple_response>>

\* lines 186-215 and 320-350: the response, then the finally
SimpleAssemble ==
    /\ simple_pc = "assemble"
    /\ simple_response' =
         IF Falsy(simple_result)
         THEN SimpleError(500, "Failed to extract text from PDF")
         ELSE SimpleSuccess(simple_result, SimpleTitle(simple_request))
    /\ temp_file' = Unlinked(temp_file)
    /\ simple_pc' = "done"
    /\ UNCHANGED <<flags, pc, handler, views, served, prev, fn, simple_request,
                   simple_result, calls>>

NextSimple ==
    \/ UploadReceive
    \/ UploadSave
    \/ ExtractReceive
    \/ ExtractFetch
    \/ SimpleTryPyMuPDF
    \/ SimpleTryPyPDF2
    \/ SimpleAssemble

SpecSimple == InitSimple /\ [][NextSimple]_vars


(***************************************************************************)
(* The import-time probes under every behaviour of the libraries           *)
(***************************************************************************)

InitProbe ==
    /\ PYPDF2_AVAILABLE = FALSE
    /\ PYTESSERACT_AVAILABLE = FALSE
    /\ PDF2IMAGE_AVAILABLE = FALSE
    /\ DOCLING_AVAILABLE = FALSE
    /\ FITZ_AVAILABLE = FALSE
    /\ PIL_AVAILABLE = FALSE
    /\ pc = "boot"
    /\ request = NoRequest
    /\ HandlerIdle
    /\ nativeView = Unknown
    /\ ocrView = Unknown
    /\ doclingView = Unknown
    /\ served = 0
    /\ prev = NoPrev
    /\ fn_arg \in [Libs -> ProbeOutcomes]
    /\ fn_ret = <<>>
    /\ fn_pc = "probe"
    /\ SimpleOff

\* the module is imported where the libraries behave as fn_arg says
Import ==
    /\ fn_pc = "probe"
    /\ pc = "boot"
    /\ Probes(fn_arg)
    /\ fn_pc' = "probed"
    /\ UNCHANGED <<handler, views, served, prev, fn_arg, fn_ret, simple>>

SpecProbe == InitProbe /\ [][Import]_vars


(***************************************************************************)
(* Properties of clean_text_for_database (SpecClean)                       *)
(***************************************************************************)

\* the results clean_text_for_database has returned so far
Sanitized == {fn_ret[n] : n \in 1..Len(fn_ret)}

NoneOf(s, set) == \A i \in 1..Len(s) : s[i] \notin set

NoWhitespaceRun(s) ==
    \A i \in 1..(Len(s) - 1) : ~(s[i] \in Whitespace /\ s[i + 1] \in Whitespace)

Trimmed(s) ==
    s = <<>> \/ (s[1] \notin Whitespace /\ s[Len(s)] \notin Whitespace)

\* C4: sanitizing is idempotent: sanitizing what the sanitizer returned
\* gives the same string again, for every input string.
C4_Idempotent ==
    (fn_pc = "clean" /\ Len(fn_ret) >= 2) => fn_ret[2] = fn_ret[1]

\* C5 as stated: the output holds no NUL, no ASCII control character other
\* than tab, line feed and carriage return, no replacement character, no
\* private-use character of any plane, no specials character, no run of two
\* whitespace characters and no whitespace at either end.
C5_NoPrivateUseAtAll ==
    fn_pc = "clean" =>
        \A out \in Sanitized :
            /\ NoneOf(out, NullBytes \cup ControlChars \cup ReplacementChars)
            /\ NoneOf(out, PrivateUseArea \cup SupplementaryPrivateUse)
            /\ NoneOf(out, Specials)
            /\ NoWhitespaceRun(out)
            /\ Trimmed(out)

\* C5 amended: as C5, with "private-use character" narrowed to the private
\* use area of the basic plane (U+E000-U+F8FF); a private-use code point of
\* a supplementary plane passes through the sanitizer unchanged.
C5_NoRemovedCharacter ==
    fn_pc = "clean" =>
        \A out \in Sanitized :
            /\ NoneOf(out, NullBytes \cup ControlChars \cup ReplacementChars)
            /\ NoneOf(out, PrivateUseArea)
            /\ NoneOf(out, Specials)
            /\ NoWhitespaceRun(out)
            /\ Trimmed(out)
            /\ \A i \in 1..Len(fn_arg) :
                 fn_arg[i] \in SupplementaryPrivateUse =>
                    \E k \in 1..Len(out) : out[k] = fn_arg[i]

\* C5 witness: an input with a control character, a run of whitespace and
\* whitespace at its end has been sanitized to a non-empty string.
C5_Witness ==
    /\ fn_pc = "clean"
    /\ Len(fn_ret) >= 1
    /\ fn_ret[1] # <<>>
    /\ \E i \in 1..Len(fn_arg) : fn_arg[i] \in ControlChars
    /\ \E i \in 1..(Len(fn_arg) - 1) :
         fn_arg[i] \in Whitespace /\ fn_arg[i + 1] \in Whitespace
    /\ fn_arg[Len(fn_arg)] \in Whitespace


(***************************************************************************)
(* Properties of the strategy chain (Spec, SpecRepeat)                     *)
(***************************************************************************)

Strategies == {"pypdf2", "ocr", "docling"}

\* native first, OCR second, structural third
Priority(s) == CASE s = "pypdf2" -> 1 [] s = "ocr" -> 2 [] s = "docling" -> 3

Available(s) ==
    CASE s = "pypdf2" -> PYPDF2_AVAILABLE
      [] s = "ocr" -> PYTESSERACT_AVAILABLE /\ PDF2IMAGE_AVAILABLE
      [] s = "docling" -> DOCLING_AVAILABLE

\* what strategy s returns for this document and this request, once asked
ResultsOf(s) ==
    CASE s = "pypdf2" ->
           {extract_with_pypdf2(v, request.filename) : v \in nativeView}
      [] s = "ocr" ->
           {extract_with_ocr(v, request.filename) : v \in ocrView}
      [] s = "docling" ->
           {extract_with_docling(v, request.filename) : v \in doclingView}

Attempted(s) == \E i \in 1..Len(attempts) : attempts[i].strategy = s

Failed(s) ==
    \E i \in 1..Len(attempts) : attempts[i].strategy = s /\ ~attempts[i].ok

\* the handler has answered a request that got as far as the chain
Answered == pc = "done" /\ pdf_path # None

\* C1: strategies are attempted in the order native, OCR, structural; a
\* strategy is attempted only if its capability is available and every
\* strategy before it was unavailable or was attempted and failed; nothing is
\* attempted after the first success, whose result is the envelope returned.
C1_StrategyOrder ==
    /\ \A i \in 1..Len(attempts) :
        /\ Available(attempts[i].strategy)
        /\ \A s \in Strategies :
             Priority(s) < Priority(attempts[i].strategy) =>
                \/ ~Available(s)
                \/ \E k \in 1..(i - 1) :
                     attempts[k].strategy = s /\ ~attempts[k].ok
        /\ \A k \in 1..(i - 1) :
             /\ Priority(attempts[k].strategy) < Priority(attempts[i].strategy)
             /\ ~attempts[k].ok
    /\ \A i \in 1..Len(attempts) :
         attempts[i].ok =>
            /\ i = Len(attempts)
            /\ pc = "done"
            /\ response.status = 200
            /\ \E r \in ResultsOf(attempts[i].strategy) :
                 ~r.raised /\ WithoutPreview(response.body) = r.value

\* C1 witness: native failed, OCR was skipped as unavailable, structural
\* succeeded and its result was returned.
C1_Witness ==
    /\ pc = "done"
    /\ ~Available("ocr")
    /\ Len(attempts) = 2
    /\ attempts[1] = [strategy |-> "pypdf2", ok |-> FALSE,
                      error |-> "No text found in PDF - may be scanned"]
    /\ attempts[2].strategy = "docling"
    /\ attempts[2].ok
    /\ response.body.method = "docling"

\* C2: when every usable strategy fails, or none is usable, the envelope is
\* success=false with the one generic message and no extraction field, and
\* it carries the error of no strategy.
C2_AllFailedIsGeneric ==
    (Answered /\ \A s \in Strategies : Available(s) => Failed(s)) =>
        /\ response.status = 500
        /\ DOMAIN response.body = {"success", "error"}
        /\ response.body.success = FALSE
        /\ response.body.error # ""
        /\ response.body.error =
             "All extraction methods failed. PDF may be corrupted or unsupported format."
        /\ \A i \in 1..Len(attempts) : response.body.error # attempts[i].error

\* C2 witness: all three strategies were usable and failed, each for its own
\* reason.
C2_Witness ==
    /\ Answered
    /\ Len(attempts) = 3
    /\ attempts[1].error = "No text found in PDF - may be scanned"
    /\ attempts[2].error = "OCR backend error"
    /\ attempts[3].error = "Docling conversion error"
    /\ response.body.success = FALSE

\* C3: for the same document, capability flags and strategy outcomes, the
\* answer has the same success value and the same extraction fields whatever
\* the preview did: compared with the answer the same request got before.
C3_PreviewNeverDecides ==
    (Answered /\ prev # NoPrev) =>
        /\ response.status = prev.status
        /\ response.body.success = prev.body.success
        /\ WithoutPreview(response.body) = WithoutPreview(prev.body)

\* C3 witness: the first answer carried a preview; for the second the
\* renderer raised inside generate_pdf_preview_image, and the answer is the
\* same success without a preview.
C3_Witness ==
    /\ Answered
    /\ prev # NoPrev
    /\ "preview_image" \in DOMAIN prev.body
    /\ request.generate_preview
    /\ preview_log = "Error generating PDF preview image"
    /\ response.body.success
    /\ "preview_image" \notin DOMAIN response.body

\* every page gave empty or whitespace-only text
AllBlank(view) ==
    ~view.raises /\ \A i \in 1..Len(view.pages) : Strip(view.pages[i]) = <<>>

\* C6: when every page yields empty or whitespace-only native text, the
\* native extractor fails, and the chain then attempts OCR if it is
\* available, otherwise the structural strategy if that is available; a
\* native success never has empty content.
C6_BlankTextFallsThrough ==
    /\ \A v \in nativeView :
         (AllBlank(v) /\ Attempted("pypdf2")) =>
            /\ attempts[1].strategy = "pypdf2"
            /\ ~attempts[1].ok
            /\ pc # "done" \/ response.body.success = FALSE
                 \/ response.body.method # "pypdf2"
            /\ (pc = "done" /\ Available("ocr")) =>
                 (Len(attempts) >= 2 /\ attempts[2].strategy = "ocr")
            /\ (pc = "done" /\ ~Available("ocr") /\ Available("docling")) =>
                 (Len(attempts) >= 2 /\ attempts[2].strategy = "docling")
            /\ (pc = "done" /\ ~Available("ocr") /\ ~Available("docling")) =>
                 (Len(attempts) = 1 /\ response.body.success = FALSE)
    /\ (pc = "done" /\ response.status = 200 /\ response.body.method = "pypdf2")
         => response.body.content # <<>>

\* C6 witness: a document of MaxPages blank pages, OCR unavailable: the
\* chain went from the failed native extractor to the structural one.
C6_Witness ==
    /\ pc = "done"
    /\ \E v \in nativeView : AllBlank(v) /\ Len(v.pages) >= 2
    /\ ~Available("ocr")
    /\ Len(attempts) = 2
    /\ ~attempts[1].ok
    /\ attempts[2].strategy = "docling"

\* C8: the confidence of a success envelope is fixed by the winning
\* strategy: 0.95 native, 0.85 OCR, 0.90 structural (in hundredths), and
\* method and metadata.extraction_method name that strategy.
C8_ConfidenceByStrategy ==
    (pc = "done" /\ response.status = 200) =>
        LET winner == attempts[Len(attempts)].strategy
            body == response.body
        IN  /\ body.success
            /\ winner = "pypdf2" =>
                 /\ body.extraction_confidence = 95
                 /\ body.method = "pypdf2"
                 /\ body.metadata.extraction_method = "pypdf2_native"
            /\ winner = "ocr" =>
                 /\ body.extraction_confidence = 85
                 /\ body.method = "ocr_pytesseract"
                 /\ body.metadata.extraction_method = "ocr_pytesseract"
            /\ winner = "docling" =>
                 /\ body.extraction_confidence = 90
                 /\ body.method = "docling"
                 /\ body.metadata.extraction_method = "docling"

\* C8 witness: OCR won for a document of more than one page, and the
\* envelope carries a preview.
C8_Witness ==
    /\ pc = "done"
    /\ response.status = 200
    /\ attempts[Len(attempts)].strategy = "ocr"
    /\ response.body.metadata.page_count >= 2
    /\ "preview_image" \in DOMAIN response.body


(***************************************************************************)
(* Properties of the extractors' results (SpecExtract)                     *)
(***************************************************************************)

\* an extractor has returned a result (it did not raise)
Extracted == fn_pc = "returned" /\ ~fn_ret[1].raised

Smallest(S) == CHOOSE i \in S : \A j \in S : i <= j

\* "the filename with its extension removed", read as the extractors compute
\* it: every ".pdf" taken out, then sanitized
Stem(filename) == clean_text_for_database(RemoveSubstr(filename, DotPdf))

\* the indices of the first n lines of the content
FirstLines(lines, n) == {i \in 1..Len(lines) : i <= n}

\* between 10 and 100 characters once trimmed, not a number, without "Page"
MeaningfulLine(line) ==
    /\ Len(Strip(line)) > 10
    /\ Len(Strip(line)) < 100
    /\ ~IsDigit(Strip(line))
    /\ ~Contains(Strip(line), <<"P", "a", "g", "e">>)

\* a line without its '#' marks, trimmed before and after
Unmarked(line) == Strip(RemoveAll(Strip(line), {"#"}))

\* between 5 and 100 characters once the '#' marks are gone
HeadingLine(line) == Len(Unmarked(line)) > 5 /\ Len(Unmarked(line)) < 100

\* C7 as stated: for every extractor the title is the first of the first 10
\* lines of the sanitized content that is between 10 and 100 characters
\* long, not a number and without "Page"; else the filename without its
\* extension.
C7_OneTitleRuleForAll ==
    Extracted =>
        LET result == fn_ret[1].value
            lines == Split(result.content, "LF")
            found == {i \in FirstLines(lines, 10) : MeaningfulLine(lines[i])}
        IN  result.title =
                IF found = {} THEN Stem(fn_arg.filename)
                ELSE clean_text_for_database(Strip(lines[Smallest(found)]))

\* C7 amended: the native and OCR extractors use that rule; the structural
\* extractor takes the first of the first 5 lines that, trimmed and with its
\* '#' characters removed, is strictly between 5 and 100 characters long,
\* with no test for numbers or "Page".  Either way the title is sanitized
\* once more, and when no line qualifies it is the sanitized filename with
\* every occurrence of ".pdf" removed.
C7_TitleRulePerExtractor ==
    Extracted =>
        LET result == fn_ret[1].value
            lines == Split(result.content, "LF")
            structural == fn_arg.strategy = "docling"
            found ==
                IF structural
                THEN {i \in FirstLines(lines, 5) : HeadingLine(lines[i])}
                ELSE {i \in FirstLines(lines, 10) : MeaningfulLine(lines[i])}
            line == lines[Smallest(found)]
        IN  result.title =
                IF found = {} THEN Stem(fn_arg.filename)
                ELSE IF structural THEN clean_text_for_database(Unmarked(line))
                ELSE clean_text_for_database(Strip(line))

\* C7 witness: the structural extractor took a title of at most 10
\* characters from a line holding a '#' mark.
C7_Witness ==
    /\ Extracted
    /\ fn_arg.strategy = "docling"
    /\ Contains(fn_ret[1].value.content, <<"#">>)
    /\ fn_ret[1].value.title = <<"a", "b", "c", "d", "e", "f">>

\* C9: a structural result has has_tables exactly when some line of the
\* converter's output holds a '|'; native and OCR results never have it.
C9_HasTables ==
    Extracted =>
        LET result == fn_ret[1].value
        IN  IF fn_arg.strategy = "docling"
            THEN result.metadata.has_tables <=>
                   \E i \in 1..Len(fn_arg.view.markdown) :
                        fn_arg.view.markdown[i] = "|"
            ELSE result.metadata.has_tables = FALSE

\* C9 witness: the '|' is on the second line of the converter's output, not
\* at its start, and has_tables is true.
C9_Witness ==
    /\ Extracted
    /\ fn_arg.strategy = "docling"
    /\ fn_arg.view.markdown = <<"a", "b", "c", "d", "e", "f", "LF", "|">>
    /\ fn_ret[1].value.metadata.has_tables

\* C10: a structural result has has_images exactly when the converter's
\* output holds the image markup "![".
C10_HasImages ==
    (Extracted /\ fn_arg.strategy = "docling") =>
        (fn_ret[1].value.metadata.has_images <=>
            Contains(fn_arg.view.markdown, <<"!", "[">>))


\* "--- Page N ---" as it stands in sanitized content
MarkerText(n) ==
    <<"-", "-", "-", "SP", "P", "a", "g", "e", "SP">> \o Decimal(n)
        \o <<"SP", "-", "-", "-">>

\* where pat occurs in s
Occurrences(s, pat) == {i \in 1..Len(s) : MatchAt(s, i, pat)}

\* an extractor of page text (native or OCR) has returned a result
PagesExtracted == Extracted /\ fn_arg.strategy \in {"pypdf2", "ocr"}

\* C16: the content of a native or OCR result holds exactly one marker
\* "--- Page N ---" for every page N (1-based) whose text is not
\* whitespace-only and none for the other pages, in page order; page_count
\* is the number of pages of the document, blank ones included, hence at
\* least the number of markers.
C16_MarkersNumberPages ==
    PagesExtracted =>
        LET pages == fn_arg.view.pages
            content == fn_ret[1].value.content
            NonBlank == {n \in 1..Len(pages) : Strip(pages[n]) # <<>>}
            markers == Occurrences(content, <<"-", "-", "-", "SP", "P", "a", "g", "e", "SP">>)
        IN  /\ \A n \in 1..Len(pages) :
                 Cardinality(Occurrences(content, MarkerText(n))) =
                    IF n \in NonBlank THEN 1 ELSE 0
            /\ \A n \in NonBlank, m \in NonBlank :
                 n < m => \A i \in Occurrences(content, MarkerText(n)),
                             j \in Occurrences(content, MarkerText(m)) : i < j
            /\ Cardinality(markers) = Cardinality(NonBlank)
            /\ fn_ret[1].value.metadata.page_count = Len(pages)
            /\ fn_ret[1].value.metadata.page_count >= Cardinality(markers)

\* C16 witness: the first page is blank and the second is not: the content
\* starts with the marker of page 2, and page_count is 2.
C16_Witness ==
    /\ PagesExtracted
    /\ Len(fn_arg.view.pages) = 2
    /\ Strip(fn_arg.view.pages[1]) = <<>>
    /\ MatchAt(fn_ret[1].value.content, 1, MarkerText(2))
    /\ fn_ret[1].value.metadata.page_count = 2

ExtractionFields ==
    {"method", "title", "content", "raw_text", "metadata", "extraction_confidence"}

\* C12: every response carries success; with success=true all extraction
\* fields are present and error is absent; with success=false error is
\* present and no extraction field is.
C12_DiscriminantConsistent ==
    pc = "done" =>
        LET fields == DOMAIN response.body
        IN  /\ "success" \in fields
            /\ response.body.success \in BOOLEAN
            /\ response.body.success =>
                 (ExtractionFields \subseteq fields /\ "error" \notin fields)
            /\ ~response.body.success =>
                 ("error" \in fields /\ fields \cap ExtractionFields = {})

\* C12 witness: the request's pdf_url was not a string, and the exception
\* this raised was answered by the outer handler.
C12_Witness ==
    /\ pc = "done"
    /\ request.pdf_url = "not_a_string"
    /\ response.status = 500
    /\ response.body.success = FALSE
    /\ response.body.error = "object has no attribute 'startswith'"

\* C13: the envelope holds preview_image exactly when generate_preview was
\* requested, the renderer returned a preview and some strategy succeeded;
\* the preview it holds is the one the renderer returned.
C13_PreviewOnlyWithSuccess ==
    pc = "done" =>
        /\ "preview_image" \in DOMAIN response.body <=>
             /\ request.generate_preview
             /\ preview_log = "PDF preview image generated successfully"
             /\ \E i \in 1..Len(attempts) : attempts[i].ok
        /\ "preview_image" \in DOMAIN response.body =>
             /\ response.body.preview_image = PreviewDataUri
             /\ response.body.preview_image = preview_image

\* C13 witness: the preview was rendered, every strategy failed, and the
\* envelope holds no preview.
C13_Witness ==
    /\ pc = "done"
    /\ request.generate_preview
    /\ preview_image = PreviewDataUri
    /\ Len(attempts) = 3
    /\ \A i \in 1..3 : ~attempts[i].ok
    /\ "preview_image" \notin DOMAIN response.body


(***************************************************************************)
(* Properties of the import-time probes (SpecProbe)                        *)
(***************************************************************************)

\* the probe of block k failed, in whatever way
ProbeFailed(k) == BlockOutcome(fn_arg, k) # "ok"

\* C11: whatever way a probe fails, startup completes, the capability of
\* the failed probe is unavailable and every other capability has the
\* result of its own probe.
C11_ProbeFailureNotFatal ==
    fn_pc = "probed" =>
        /\ pc = "idle"
        /\ PYPDF2_AVAILABLE = ~ProbeFailed(1)
        /\ PYTESSERACT_AVAILABLE = ~ProbeFailed(2)
        /\ PDF2IMAGE_AVAILABLE = ~ProbeFailed(2)
        /\ DOCLING_AVAILABLE = ~ProbeFailed(3)
        /\ FITZ_AVAILABLE = ~ProbeFailed(4)
        /\ PIL_AVAILABLE = ~ProbeFailed(5)


(***************************************************************************)
(* Properties of the simple service (SpecSimple)                           *)
(***************************************************************************)

\* C14: once a handler has returned its response, the temporary directory
\* or file it created no longer exists, on every exit path, an exception
\* while the bytes are written included.
C14_TempArtifactsReleased ==
    /\ pc = "done" => temp_dir # "exists"
    /\ simple_pc = "done" => temp_file # "exists"

\* the results the extractors called so far have returned
Returned(i) == calls[i].returned

\* C15: PyMuPDF is called first, and PyPDF2 only after PyMuPDF returned no
\* result; a result with empty text is a result and ends the chain; when
\* both return no result the response is an error with status 500,
\* otherwise it is a success whose method and content are those of the
\* extractor that returned a result.
C15_PyMuPDFThenPyPDF2 ==
    /\ Len(calls) <= 2
    /\ Len(calls) >= 1 => calls[1].extractor = "PyMuPDF"
    /\ Len(calls) = 2 =>
         (calls[2].extractor = "PyPDF2" /\ Returned(1) = NoResult)
    /\ \A i \in 1..Len(calls) : Returned(i) # NoResult => i = Len(calls)
    /\ (simple_pc = "done" /\ calls # <<>>) =>
         IF \A i \in 1..Len(calls) : Returned(i) = NoResult
         THEN /\ Len(calls) = 2
              /\ simple_response.status = 500
              /\ "error" \in DOMAIN simple_response.body
         ELSE /\ simple_response.status = 200
              /\ simple_response.body.success
              /\ simple_response.body.method = calls[Len(calls)].extractor
              /\ simple_response.body.method = Returned(Len(calls)).method
              /\ simple_response.body.content = Returned(Len(calls)).text

\* C15 witness: PyMuPDF returned a result with empty text for a document
\* with pages, PyPDF2 was not called, and the response names PyMuPDF.
C15_Witness ==
    /\ simple_pc = "done"
    /\ Len(calls) = 1
    /\ Returned(1) # NoResult
    /\ Returned(1).text = <<>>
    /\ Returned(1).page_count >= 2
    /\ simple_response.status = 200
    /\ simple_response.body.method = "PyMuPDF"

====
